---- MODULE Spec2Model ----
(***************************************************************************)
(* Model of the WarEra market dashboard (src/app3.py): the production-cost *)
(* evaluator, the maximum-cost-per-PP solver, the employee report and the  *)
(* paginated trade-feed readers.                                           *)
(*                                                                         *)
(* Python floats are modelled as exact rationals <<n, d>> in lowest terms  *)
(* with d > 0.  float('inf') is <<1, 0>> and None is the empty tuple.      *)
(***************************************************************************)
EXTENDS Integers, Sequences, FiniteSets, TLC

VARIABLES
    \* arguments and results of the last call into the cost engine
    call, resource, cost_per_pp, production_bonus, market_prices,
    use_deposit_bonus, total_cost, max_cost_per_pp,
    \* analyze_employees_with_real_costs: its inputs and its report
    report_call, companies, employees_analysis,
    \* fetch_24h_volume / fetch_trades: the upstream feed and the loop state
    feed, fetcher, max_pages, status, cursor, requests, volume, all_items,
    \* the order book fetch_market_orders returned and the spread made of it
    buy_orders, sell_orders, spread_call, spread_status, spread,
    \* one evaluation of calculate_production_cost_with_market, frame by
    \* frame: the recipe table it reads, its call stack and its cache
    catalog, stack, eval_cache, eval_status, eval_result

engineVars == <<call, resource, cost_per_pp, production_bonus, market_prices,
                use_deposit_bonus, total_cost, max_cost_per_pp>>
reportVars == <<report_call, companies, employees_analysis>>
feedVars == <<feed, fetcher, max_pages, status, cursor, requests, volume, all_items>>
spreadVars == <<buy_orders, sell_orders, spread_call, spread_status, spread>>
evalVars == <<catalog, stack, eval_cache, eval_status, eval_result>>
vars == <<engineVars, reportVars, feedVars, spreadVars, evalVars>>

----------------------------------------------------------------------------
(* Exact rational arithmetic standing for Python's float operators.        *)

None == <<>>
Inf == <<1, 0>>

Abs(x) == IF x < 0 THEN -x ELSE x

RECURSIVE GCD(_, _)
GCD(a, b) == IF b = 0 THEN a ELSE GCD(b, a % b)

Rat(n, d) ==
    LET s == IF d < 0 THEN -1 ELSE 1
        g == GCD(Abs(n), Abs(d))
    IN  <<(s * n) \div g, (s * d) \div g>>

Zero == <<0, 1>>
One == <<1, 1>>
Int2Rat(k) == <<k, 1>>

RAdd(x, y) == Rat(x[1] * y[2] + y[1] * x[2], x[2] * y[2])
RSub(x, y) == Rat(x[1] * y[2] - y[1] * x[2], x[2] * y[2])
RMul(x, y) == Rat(x[1] * y[1], x[2] * y[2])
RDiv(x, y) == Rat(x[1] * y[2], x[2] * y[1])
RLe(x, y) == x[1] * y[2] <= y[1] * x[2]
RLt(x, y) == x[1] * y[2] < y[1] * x[2]
IsNumber(x) == Len(x) = 2 /\ x[2] > 0

----------------------------------------------------------------------------
(* The recipe catalog.  Ingredients keep the dict's insertion order.       *)

PRODUCTION_DATA ==
    [steak      |-> [ingredients |-> << <<"livestock", 1>> >>,  pp |-> 20],
     livestock  |-> [ingredients |-> << >>,                     pp |-> 20],
     coca       |-> [ingredients |-> << >>,                     pp |-> 1],
     cocain     |-> [ingredients |-> << <<"coca", 200>> >>,     pp |-> 200],
     cookedFish |-> [ingredients |-> << <<"fish", 1>> >>,       pp |-> 40],
     heavyAmmo  |-> [ingredients |-> << <<"lead", 16>> >>,      pp |-> 16],
     concrete   |-> [ingredients |-> << <<"limestone", 10>> >>, pp |-> 10],
     fish       |-> [ingredients |-> << >>,                     pp |-> 40],
     bread      |-> [ingredients |-> << <<"grain", 10>> >>,     pp |-> 10],
     ammo       |-> [ingredients |-> << <<"lead", 4>> >>,       pp |-> 4],
     limestone  |-> [ingredients |-> << >>,                     pp |-> 1],
     grain      |-> [ingredients |-> << >>,                     pp |-> 1],
     iron       |-> [ingredients |-> << >>,                     pp |-> 1],
     steel      |-> [ingredients |-> << <<"iron", 10>> >>,      pp |-> 10],
     lead       |-> [ingredients |-> << >>,                     pp |-> 1],
     lightAmmo  |-> [ingredients |-> << <<"lead", 1>> >>,       pp |-> 1],
     oil        |-> [ingredients |-> << <<"petroleum", 1>> >>,  pp |-> 1],
     petroleum  |-> [ingredients |-> << >>,                     pp |-> 1]]

Catalog == DOMAIN PRODUCTION_DATA

RAW_MATERIALS == {r \in Catalog : PRODUCTION_DATA[r].ingredients = << >>}

\* item_options offers one item code that has no recipe
item_options == Catalog \cup {"case1"}

IngredientNames(r) ==
    IF r \in Catalog
    THEN {PRODUCTION_DATA[r].ingredients[i][1] :
              i \in 1..Len(PRODUCTION_DATA[r].ingredients)}
    ELSE {}

----------------------------------------------------------------------------
(* calculate_production_cost_with_market                                   *)

EmptyMap == [x \in {} |-> Zero]

Put(f, k, v) == [x \in (DOMAIN f) \cup {k} |-> IF x = k THEN v ELSE f[x]]

EffectivePPSwapped(pp, bonus) == RMul(Int2Rat(pp), RAdd(One, bonus))

EffectivePP(pp, bonus) == RDiv(Int2Rat(pp), RAdd(One, bonus))

RECURSIVE CostWithCache(_, _, _, _, _)
RECURSIVE IngredientLoop(_, _, _, _, _, _, _)

\* the for loop of lines 117-125 from ingredient i on; total and cache are
\* the loop's running total_cost and the shared cache
IngredientLoop(ings, i, total, c, b, M, cache) ==
    IF i > Len(ings)
    THEN [cost |-> total, cache |-> cache]
    ELSE LET ingredient == ings[i][1]
             quantity == ings[i][2]
             sub == IF ingredient \in DOMAIN M
                    THEN [cost |-> M[ingredient], cache |-> cache]
                    ELSE CostWithCache(ingredient, c, b, M, cache)
         IN  IngredientLoop(ings, i + 1,
                            RAdd(total, RMul(Int2Rat(quantity), sub.cost)),
                            c, b, M, sub.cache)

\* the function body for a resource of the catalog: the cost and the cache
\* as the call leaves it
CostWithCache(r, c, b, M, cache) ==
    IF r \in DOMAIN cache
    THEN [cost |-> cache[r], cache |-> cache]
    ELSE LET recipe == PRODUCTION_DATA[r]
             done == IngredientLoop(recipe.ingredients, 1,
                                    RMul(EffectivePP(recipe.pp, b), c),
                                    c, b, M, cache)
         IN  [cost |-> done.cost, cache |-> Put(done.cache, r, done.cost)]

CostMarketPriceFirst(r, c, b, M) ==
    IF r \in DOMAIN M THEN M[r] ELSE CostWithCache(r, c, b, M, EmptyMap).cost

\* a top-level call (cache=None): a fresh cache
calculate_production_cost_with_market(r, c, b, M) ==
    CostWithCache(r, c, b, M, EmptyMap).cost

----------------------------------------------------------------------------
(* calculate_max_pp_cost                                                   *)

DEPOSIT_BONUS == <<3, 10>>

EffectiveBonusAnyResource(r, bonus, deposit) ==
    IF deposit THEN RAdd(bonus, DEPOSIT_BONUS) ELSE bonus

EffectiveBonus(r, bonus, deposit) ==
    IF deposit /\ r \in RAW_MATERIALS THEN RAdd(bonus, DEPOSIT_BONUS) ELSE bonus

MaxIngredientTermNoQuantity(quantity, price) == price

\* quantity * market_prices[ingredient] (line 151)
MaxIngredientTerm(quantity, price) == RMul(Int2Rat(quantity), price)

RECURSIVE MaxIngredientLoop(_, _, _, _)
\* the loop of lines 149-154: it leaves the function as soon as a price is
\* missing, whatever was summed before
MaxIngredientLoop(ings, i, acc, M) ==
    IF i > Len(ings) THEN [missing |-> FALSE, cost |-> acc]
    ELSE IF ings[i][1] \in DOMAIN M
         THEN MaxIngredientLoop(ings, i + 1,
                  RAdd(acc, MaxIngredientTerm(ings[i][2], M[ings[i][1]])), M)
         ELSE [missing |-> TRUE, cost |-> acc]

MissingPriceAsZero == Zero

\* what lines 134 and 154 return
MissingPriceResult == None

calculate_max_pp_cost(r, bonus, M, deposit) ==
    IF r \notin Catalog \/ r \notin DOMAIN M THEN MissingPriceResult
    ELSE LET market_price == M[r]
             recipe == PRODUCTION_DATA[r]
             effective_pp == EffectivePP(recipe.pp, EffectiveBonus(r, bonus, deposit))
             loop == MaxIngredientLoop(recipe.ingredients, 1, Zero, M)
         IN  IF loop.missing THEN MissingPriceResult
             ELSE IF RLe(market_price, loop.cost) THEN Zero
             ELSE RDiv(RSub(market_price, loop.cost), effective_pp)

----------------------------------------------------------------------------
(* The inputs the cost engine is exercised with.                           *)

Prices == {<<1, 10>>, <<2, 5>>, <<1, 1>>, <<25, 1>>}
CostsPerPP == {<<1, 10>>, <<3, 20>>, <<1, 1>>}
Bonuses == {<<0, 1>>, <<1, 10>>, <<7, 25>>}

\* every partial map from the keys to the prices
PriceMaps(keys) == UNION {[d -> Prices] : d \in SUBSET keys}

\* the keys of market_prices the two functions read for resource r
Relevant(r) == {r} \cup IngredientNames(r)

\* the arguments are drawn before the call; nothing has been computed yet
EngineInit ==
    /\ call = "none"
    /\ resource \in item_options
    /\ cost_per_pp \in CostsPerPP
    /\ production_bonus \in Bonuses
    /\ market_prices \in PriceMaps(Relevant(resource))
    /\ use_deposit_bonus \in BOOLEAN
    /\ total_cost = None
    /\ max_cost_per_pp = None

\* a call of calculate_production_cost_with_market; a resource that is not
\* a key of PRODUCTION_DATA raises KeyError at line 111
CalculateProductionCost ==
    /\ call = "none"
    /\ call' = IF resource \in Catalog THEN "cost" ELSE "cost_raised"
    /\ total_cost' = IF resource \in Catalog
                     THEN calculate_production_cost_with_market(
                              resource, cost_per_pp, production_bonus, market_prices)
                     ELSE None
    /\ UNCHANGED <<resource, cost_per_pp, production_bonus, market_prices,
                   use_deposit_bonus, max_cost_per_pp>>

\* a call of calculate_max_pp_cost
CalculateMaxPPCost ==
    /\ call = "none"
    /\ call' = "max"
    /\ max_cost_per_pp' = calculate_max_pp_cost(
                              resource, production_bonus, market_prices, use_deposit_bonus)
    /\ UNCHANGED <<resource, cost_per_pp, production_bonus, market_prices,
                   use_deposit_bonus, total_cost>>

\* the solver's positive result fed back to the evaluator as cost_per_pp,
\* with the same resource, bonus and market prices
CostAtMaxPPCost ==
    /\ call = "max"
    /\ IsNumber(max_cost_per_pp)
    /\ RLt(Zero, max_cost_per_pp)
    /\ call' = "inverse"
    /\ cost_per_pp' = max_cost_per_pp
    /\ total_cost' = calculate_production_cost_with_market(
                         resource, max_cost_per_pp, production_bonus, market_prices)
    /\ UNCHANGED <<resource, production_bonus, market_prices,
                   use_deposit_bonus, max_cost_per_pp>>

ReportIdle ==
    /\ report_call = "none"
    /\ companies = << >>
    /\ employees_analysis = << >>

FeedIdle ==
    /\ feed = << >>
    /\ fetcher = "none"
    /\ max_pages = 0
    /\ status = "idle"
    /\ cursor = 0
    /\ requests = 0
    /\ volume = 0
    /\ all_items = << >>

SpreadIdle ==
    /\ buy_orders = << >>
    /\ sell_orders = << >>
    /\ spread_call = "none"
    /\ spread_status = "none"
    /\ spread = None

EvalIdle ==
    /\ catalog = PRODUCTION_DATA
    /\ stack = << >>
    /\ eval_cache = EmptyMap
    /\ eval_status = "idle"
    /\ eval_result = None

Init == EngineInit /\ ReportIdle /\ FeedIdle /\ SpreadIdle /\ EvalIdle

Next ==
    \/ CalculateProductionCost /\ UNCHANGED <<reportVars, feedVars, spreadVars, evalVars>>
    \/ CalculateMaxPPCost /\ UNCHANGED <<reportVars, feedVars, spreadVars, evalVars>>
    \/ CostAtMaxPPCost /\ UNCHANGED <<reportVars, feedVars, spreadVars, evalVars>>

Spec == Init /\ [][Next]_vars

----------------------------------------------------------------------------
(* analyze_employees_with_real_costs                                       *)

ZeroDivisionError == <<0, 0>>

\* Python's / on floats
PyDiv(x, y) == IF y[1] = 0 THEN ZeroDivisionError ELSE RDiv(x, y)

\* market_prices.get(resource, 0)
MarketPriceOrZero(M, r) == IF r \in DOMAIN M THEN M[r] ELSE Zero

\* line 201
ProfitPercentage(profit_per_unit, production_cost) ==
    IF RLt(Zero, production_cost)
    THEN LET q == PyDiv(profit_per_unit, production_cost)
         IN  IF q = ZeroDivisionError THEN q ELSE RMul(q, Int2Rat(100))
    ELSE Inf

IsProfitableOrBreakEven(profit_per_unit) == RLe(Zero, profit_per_unit)

\* line 204: profit_per_unit > 0
IsProfitable(profit_per_unit) == RLt(Zero, profit_per_unit)

RECURSIVE SharedCacheAfter(_, _, _, _)
\* the cache one dictionary shared by all calls would hold after worker j of
\* the i-th company (j = 0: before the company's first worker)
SharedCacheAfter(i, j, M, bonus) ==
    IF i = 0 THEN EmptyMap
    ELSE IF j = 0 \/ ~companies[i].fetched \/ companies[i].itemCode \notin Catalog
         THEN SharedCacheAfter(i - 1,
                               IF i = 1 THEN 0 ELSE Len(companies[i - 1].workers),
                               M, bonus)
         ELSE CostWithCache(companies[i].itemCode, companies[i].workers[j], bonus, M,
                            SharedCacheAfter(i, j - 1, M, bonus)).cache

WorkerRowSharedCache(i, j, company, M, bonus) ==
    LET wage == company.workers[j]
        production_cost ==
            CostWithCache(company.itemCode, wage, bonus, M,
                          SharedCacheAfter(i, j - 1, M, bonus)).cost
        market_price == IF company.itemCode \in DOMAIN M
                        THEN M[company.itemCode] ELSE Zero
        profit_per_unit == RSub(market_price, production_cost)
    IN  [company |-> i,
         resource |-> company.itemCode,
         worker_id |-> j,
         wage |-> wage,
         production_cost |-> production_cost,
         market_price |-> market_price,
         profit_per_unit |-> profit_per_unit,
         profit_percentage |-> IF RLt(Zero, production_cost)
                               THEN RMul(RDiv(profit_per_unit, production_cost),
                                         Int2Rat(100))
                               ELSE Inf,
         is_profitable |-> RLt(Zero, profit_per_unit)]

\* the record appended at lines 206-216 for worker j of the i-th company
WorkerRow(i, j, company, M, bonus) ==
    LET wage == company.workers[j]
        production_cost ==
            calculate_production_cost_with_market(company.itemCode, wage, bonus, M)
        market_price == MarketPriceOrZero(M, company.itemCode)
        profit_per_unit == RSub(market_price, production_cost)
    IN  [company |-> i,
         resource |-> company.itemCode,
         worker_id |-> j,
         wage |-> wage,
         production_cost |-> production_cost,
         market_price |-> market_price,
         profit_per_unit |-> profit_per_unit,
         profit_percentage |-> ProfitPercentage(profit_per_unit, production_cost),
         is_profitable |-> IsProfitable(profit_per_unit)]

\* the two continue statements of lines 178-183
SkipCompany(company, M) ==
    \/ ~company.fetched
    \/ company.itemCode \notin Catalog

\* the rows one iteration of the loop of line 176 appends
CompanyRows(i, company, M, bonus) ==
    IF SkipCompany(company, M) THEN << >>
    ELSE [j \in 1..Len(company.workers) |-> WorkerRow(i, j, company, M, bonus)]

RECURSIVE AnalysisFrom(_, _, _, _)
AnalysisFrom(cs, i, M, bonus) ==
    IF i > Len(cs) THEN << >>
    ELSE CompanyRows(i, cs[i], M, bonus) \o AnalysisFrom(cs, i + 1, M, bonus)

\* cs: the details get_company_details returns for each company of the
\* user, in order; M: what get_market_prices returns
analyze_employees_with_real_costs(cs, M, bonus) ==
    IF cs = << >> \/ DOMAIN M = {} THEN << >>
    ELSE AnalysisFrom(cs, 1, M, bonus)

MaxCompanies == 2
MaxWorkers == 1

Wages == {<<0, 1>>, <<1, 10>>}
ReportPrices == {<<1, 10>>, <<1, 1>>}
ReportBonuses == {<<0, 1>>, <<1, 10>>}
\* the item codes of the user's companies and the keys the price map may hold
CompanyItemCodes == {"lead", "ammo", "case1"}
ReportPriceKeys == {"lead", "ammo"}

SeqsUpTo(S, n) == UNION {[1..k -> S] : k \in 0..n}

\* a company whose details could not be fetched (get_company_details
\* returned None), or its itemCode and the wages of its workers
CompanyDetails ==
    {[fetched |-> FALSE, itemCode |-> "case1", workers |-> << >>]}
    \cup [fetched : {TRUE}, itemCode : CompanyItemCodes,
          workers : SeqsUpTo(Wages, MaxWorkers)]

ReportInit ==
    /\ report_call = "none"
    /\ companies \in SeqsUpTo(CompanyDetails, MaxCompanies)
    /\ market_prices \in UNION {[d -> ReportPrices] : d \in SUBSET ReportPriceKeys}
    /\ production_bonus \in ReportBonuses
    /\ employees_analysis = << >>
    /\ call = "none"
    /\ resource = "lead"
    /\ cost_per_pp = One
    /\ use_deposit_bonus = FALSE
    /\ total_cost = None
    /\ max_cost_per_pp = None

\* one run of analyze_employees_with_real_costs
AnalyzeEmployees ==
    /\ report_call = "none"
    /\ LET rows == analyze_employees_with_real_costs(
                       companies, market_prices, production_bonus)
       IN  IF \E k \in 1..Len(rows) : rows[k].profit_percentage = ZeroDivisionError
           THEN /\ report_call' = "raised"
                /\ employees_analysis' = << >>
           ELSE /\ report_call' = "returned"
                /\ employees_analysis' = rows
    /\ UNCHANGED <<companies, engineVars, feedVars, spreadVars, evalVars>>

InitReport == ReportInit /\ FeedIdle /\ SpreadIdle /\ EvalIdle

NextReport == AnalyzeEmployees

SpecReport == InitReport /\ [][NextReport]_vars

----------------------------------------------------------------------------
(* fetch_24h_volume and fetch_trades                                       *)
(*                                                                         *)
(* The upstream feed is a sequence of pages.  The cursor a page returns is *)
(* the index of the next page; the last page returns none, or, for a feed  *)
(* that never ends, the cursor of the first page again.  cursor = 0 is     *)
(* Python's None.  A trade is <<kind, quantity>>: "fresh" has createdAt    *)
(* at or after the cutoff, "old" before it, "nots" has no createdAt.       *)

RANGE_24H == 20
DEFAULT_MAX_PAGES == 20

PageAt(f, cur) == f.pages[IF cur = 0 THEN 1 ELSE cur]

\* data.get("nextCursor") of the page requested with cursor cur
NextCursor(f, cur) ==
    LET k == IF cur = 0 THEN 1 ELSE cur
    IN  IF k < Len(f.pages) THEN k + 1
        ELSE IF f.loop THEN 1 ELSE 0

StopAtOldNever(t) == FALSE

\* dt < cutoff (line 299)
StopAtOld(t) == t[1] = "old"

RECURSIVE ScanPage(_, _, _)
\* the loop of lines 293-302 from item i on: the volume it reaches and
\* whether it returned out of the function
ScanPage(items, i, vol) ==
    IF i > Len(items) THEN [volume |-> vol, returned |-> FALSE]
    ELSE IF items[i][1] = "nots" THEN ScanPage(items, i + 1, vol)
    ELSE IF StopAtOld(items[i]) THEN [volume |-> vol, returned |-> TRUE]
    ELSE ScanPage(items, i + 1, vol + items[i][2])

NoPageLimit(n, limit) == FALSE

\* the for loop over range(limit) has run its last iteration
RangeExhausted(n, limit) == n >= limit

\* the request of line 284 fails: raise_for_status propagates to the caller
Fetch24hVolumeFails ==
    /\ fetcher = "fetch_24h_volume"
    /\ status = "running"
    /\ requests' = requests + 1
    /\ status' = "raised"
    /\ UNCHANGED <<feed, fetcher, max_pages, cursor, volume, all_items>>

\* one iteration of the loop of fetch_24h_volume whose request succeeds
Fetch24hVolumePage ==
    /\ fetcher = "fetch_24h_volume"
    /\ status = "running"
    /\ requests' = requests + 1
    /\ LET items == PageAt(feed, cursor)
           scan == ScanPage(items, 1, volume)
           next == NextCursor(feed, cursor)
       IN  IF items = << >>
           THEN /\ status' = "returned"
                /\ UNCHANGED <<cursor, volume>>
           ELSE IF scan.returned
           THEN /\ status' = "returned"
                /\ volume' = scan.volume
                /\ UNCHANGED cursor
           ELSE /\ volume' = scan.volume
                /\ cursor' = next
                /\ status' = IF next = 0 \/ RangeExhausted(requests + 1, RANGE_24H)
                             THEN "returned" ELSE "running"
    /\ UNCHANGED <<feed, fetcher, max_pages, all_items>>

\* the request of line 248 fails: the except clause breaks out of the loop
FetchTradesFails ==
    /\ fetcher = "fetch_trades"
    /\ status = "running"
    /\ requests' = requests + 1
    /\ status' = "returned"
    /\ UNCHANGED <<feed, fetcher, max_pages, cursor, volume, all_items>>

\* one iteration of the loop of fetch_trades whose request succeeds
FetchTradesPage ==
    /\ fetcher = "fetch_trades"
    /\ status = "running"
    /\ requests' = requests + 1
    /\ LET items == PageAt(feed, cursor)
           next == NextCursor(feed, cursor)
       IN  IF items = << >>
           THEN /\ status' = "returned"
                /\ UNCHANGED <<cursor, all_items>>
           ELSE /\ all_items' = all_items \o items
                /\ cursor' = next
                /\ status' = IF next = 0 \/ RangeExhausted(requests + 1, max_pages)
                             THEN "returned" ELSE "running"
    /\ UNCHANGED <<feed, fetcher, max_pages, volume>>

MaxFeedPages == 3
MaxPageLen == 1

Trades == {<<"fresh", 5>>, <<"old", 5>>, <<"nots", 5>>}
Pages == SeqsUpTo(Trades, MaxPageLen)

\* every feed of a few short pages, ending or not
ShortFeeds == [pages : UNION {[1..k -> Pages] : k \in 1..MaxFeedPages},
               loop : BOOLEAN]

\* feeds longer than the page limits: single recent trades page after page,
\* then one last page
LongFeeds ==
    {[pages |-> [i \in 1..n |-> IF i < n THEN << <<"fresh", 5>> >> ELSE last],
      loop |-> FALSE] :
        n \in (RANGE_24H - 1)..(RANGE_24H + 2), last \in Pages}

MaxPagesArgs == {1, 2, DEFAULT_MAX_PAGES}

\* the state at the first iteration of either loop
FeedInit ==
    /\ feed \in ShortFeeds \cup LongFeeds
    /\ \/ fetcher = "fetch_24h_volume" /\ max_pages = RANGE_24H
       \/ fetcher = "fetch_trades" /\ max_pages \in MaxPagesArgs
    /\ status = "running"
    /\ cursor = 0
    /\ requests = 0
    /\ volume = 0
    /\ all_items = << >>

EngineIdle ==
    /\ call = "none"
    /\ resource = "lead"
    /\ cost_per_pp = One
    /\ production_bonus = Zero
    /\ market_prices = EmptyMap
    /\ use_deposit_bonus = FALSE
    /\ total_cost = None
    /\ max_cost_per_pp = None

InitFeed == FeedInit /\ EngineIdle /\ ReportIdle /\ SpreadIdle /\ EvalIdle

NextFeed ==
    \/ Fetch24hVolumeFails /\ UNCHANGED <<engineVars, reportVars, spreadVars, evalVars>>
    \/ Fetch24hVolumePage /\ UNCHANGED <<engineVars, reportVars, spreadVars, evalVars>>
    \/ FetchTradesFails /\ UNCHANGED <<engineVars, reportVars, spreadVars, evalVars>>
    \/ FetchTradesPage /\ UNCHANGED <<engineVars, reportVars, spreadVars, evalVars>>

SpecFeed == InitFeed /\ [][NextFeed]_vars

----------------------------------------------------------------------------
(* The bid/ask spread: the Market Depth tab and calculate_bid_ask_spread.  *)
(*                                                                         *)
(* An order book is the pair of lists fetch_market_orders returns, each    *)
(* order a record with a price and a quantity; a failed fetch returns two  *)
(* empty lists.  pd.DataFrame of an empty list has no columns, so          *)
(* selecting a column of it raises KeyError.                               *)

\* buy_df['price'] > 0.002
PRICE_FLOOR == <<1, 500>>

MaxOrders == 2

OrderPrices == {<<1, 1000>>, <<1, 10>>, <<1, 5>>, <<1, 2>>}
Orders == [price : OrderPrices, quantity : {5}]

\* df['price'].max() and df['price'].min() of a non-empty frame
MaxPrice(orders) ==
    CHOOSE p \in {orders[i].price : i \in 1..Len(orders)} :
        \A i \in 1..Len(orders) : RLe(orders[i].price, p)

MinPrice(orders) ==
    CHOOSE p \in {orders[i].price : i \in 1..Len(orders)} :
        \A i \in 1..Len(orders) : RLe(p, orders[i].price)

\* the rows of buy_df line 389 keeps
AboveFloor(o) == RLt(PRICE_FLOOR, o.price)

\* lines 388-412: what the tab ends with and the spread it computed
MarketDepth(buy, sell) ==
    IF buy = << >>
    THEN [status |-> "KeyError", spread |-> None]
    ELSE LET buy_df == SelectSeq(buy, AboveFloor)
         IN  IF buy_df = << >> /\ sell = << >>
             THEN [status |-> "warning", spread |-> None]
             ELSE IF sell = << >>
             THEN [status |-> "KeyError", spread |-> None]
             ELSE IF buy_df = << >>
             THEN [status |-> "ValueError", spread |-> None]
             ELSE [status |-> "shown",
                   spread |-> RSub(MinPrice(sell), MaxPrice(buy_df))]

\* lines 662-664
AskMinusBid(buy, sell) == RSub(MinPrice(sell), MaxPrice(buy))

\* lines 654-665
calculate_bid_ask_spread(buy, sell) ==
    IF buy = << >> \/ sell = << >> THEN None ELSE AskMinusBid(buy, sell)

SpreadInit ==
    /\ buy_orders \in SeqsUpTo(Orders, MaxOrders)
    /\ sell_orders \in SeqsUpTo(Orders, MaxOrders)
    /\ spread_call = "none"
    /\ spread_status = "none"
    /\ spread = None

\* one rendering of the Market Depth tab
MarketDepthTab ==
    /\ spread_call = "none"
    /\ spread_call' = "market_depth"
    /\ LET r == MarketDepth(buy_orders, sell_orders)
       IN  spread_status' = r.status /\ spread' = r.spread
    /\ UNCHANGED <<buy_orders, sell_orders>>

\* one call of calculate_bid_ask_spread from the arbitrage tab
CalculateBidAskSpread ==
    /\ spread_call = "none"
    /\ spread_call' = "arbitrage"
    /\ spread_status' = "returned"
    /\ spread' = calculate_bid_ask_spread(buy_orders, sell_orders)
    /\ UNCHANGED <<buy_orders, sell_orders>>

InitSpread == SpreadInit /\ EngineIdle /\ ReportIdle /\ FeedIdle /\ EvalIdle

NextSpread ==
    \/ MarketDepthTab /\ UNCHANGED <<engineVars, reportVars, feedVars, evalVars>>
    \/ CalculateBidAskSpread /\ UNCHANGED <<engineVars, reportVars, feedVars, evalVars>>

SpecSpread == InitSpread /\ [][NextSpread]_vars

----------------------------------------------------------------------------
(* calculate_production_cost_with_market frame by frame.                   *)
(*                                                                         *)
(* The function reads the global PRODUCTION_DATA; catalog is the table it  *)
(* reads, the shipped one or one whose ingredient graph has a cycle.  Each *)
(* frame of stack is one activation: its resource, the index of the        *)
(* ingredient its loop is at and its running total_cost.  The interpreter  *)
(* raises RecursionError when the stack reaches its recursion limit; the   *)
(* function has no try statement, so the exception ends the evaluation.    *)

\* the interpreter's recursion limit, scaled down
RecursionLimit == 6

\* the shipped catalog with lead made of ammo (ammo is made of lead)
CyclicCatalog == [PRODUCTION_DATA EXCEPT !["lead"].ingredients = << <<"ammo", 1>> >>]

Catalogs == {PRODUCTION_DATA, CyclicCatalog}

EvalPriceKeys == {"lead", "ammo"}

\* lines 111-115: a new activation for resource r
NewFrame(cat, r, c, b) ==
    [resource |-> r, i |-> 1, total_cost |-> RMul(EffectivePP(cat[r].pp, b), c)]

\* total_cost += sub_cost * quantity, and on to the next ingredient
AddIngredient(frame, quantity, sub_cost) ==
    [frame EXCEPT !.total_cost = RAdd(@, RMul(Int2Rat(quantity), sub_cost)),
                  !.i = @ + 1]

ReplaceTop(stk, frame) == [stk EXCEPT ![Len(stk)] = frame]

EvalInit ==
    /\ call = "none"
    /\ resource \in Catalog
    /\ cost_per_pp \in CostsPerPP
    /\ production_bonus \in Bonuses
    /\ market_prices \in PriceMaps(EvalPriceKeys)
    /\ use_deposit_bonus = FALSE
    /\ total_cost = None
    /\ max_cost_per_pp = None
    /\ catalog \in Catalogs
    /\ stack = << >>
    /\ eval_cache = EmptyMap
    /\ eval_status = "idle"
    /\ eval_result = None

\* the top-level call: a fresh cache (lines 105-106) and the first frame
EvalStart ==
    /\ eval_status = "idle"
    /\ eval_status' = "running"
    /\ eval_cache' = EmptyMap
    /\ stack' = <<NewFrame(catalog, resource, cost_per_pp, production_bonus)>>
    /\ UNCHANGED <<catalog, eval_result>>

\* one iteration of the loop of lines 117-125 in the innermost activation
EvalIngredient ==
    /\ eval_status = "running"
    /\ LET top == stack[Len(stack)]
           ings == catalog[top.resource].ingredients
       IN  /\ top.i <= Len(ings)
           /\ LET ingredient == ings[top.i][1]
                  quantity == ings[top.i][2]
              IN  IF ingredient \in DOMAIN market_prices
                  THEN /\ stack' = ReplaceTop(stack, AddIngredient(top, quantity,
                                                      market_prices[ingredient]))
                       /\ UNCHANGED eval_status
                  ELSE IF ingredient \in DOMAIN eval_cache
                  THEN /\ stack' = ReplaceTop(stack, AddIngredient(top, quantity,
                                                      eval_cache[ingredient]))
                       /\ UNCHANGED eval_status
                  ELSE IF Len(stack) >= RecursionLimit
                  THEN /\ stack' = << >>
                       /\ eval_status' = "RecursionError"
                  ELSE /\ stack' = Append(stack, NewFrame(catalog, ingredient,
                                                 cost_per_pp, production_bonus))
                       /\ UNCHANGED eval_status
    /\ UNCHANGED <<catalog, eval_cache, eval_result>>

\* lines 127-128: the innermost activation stores its total and returns it
EvalReturn ==
    /\ eval_status = "running"
    /\ LET n == Len(stack)
           top == stack[n]
       IN  /\ top.i > Len(catalog[top.resource].ingredients)
           /\ eval_cache' = Put(eval_cache, top.resource, top.total_cost)
           /\ IF n = 1
              THEN /\ stack' = << >>
                   /\ eval_status' = "returned"
                   /\ eval_result' = top.total_cost
              ELSE LET caller == stack[n - 1]
                       quantity == catalog[caller.resource].ingredients[caller.i][2]
                   IN  /\ stack' = ReplaceTop(SubSeq(stack, 1, n - 1),
                                      AddIngredient(caller, quantity, top.total_cost))
                       /\ UNCHANGED <<eval_status, eval_result>>
    /\ UNCHANGED catalog

InitEval == EvalInit /\ ReportIdle /\ FeedIdle /\ SpreadIdle

NextEval ==
    \/ EvalStart /\ UNCHANGED <<engineVars, reportVars, feedVars, spreadVars>>
    \/ EvalIngredient /\ UNCHANGED <<engineVars, reportVars, feedVars, spreadVars>>
    \/ EvalReturn /\ UNCHANGED <<engineVars, reportVars, feedVars, spreadVars>>

SpecEval == InitEval /\ [][NextEval]_vars

----------------------------------------------------------------------------
(* Properties of the cost engine, checked under Spec.                      *)

Price(M, k) == M[k]

RECURSIVE DirectIngredientSum(_, _, _, _, _)
\* sum over the direct ingredients from i on of qty * M[ing] when ing is a
\* key of M, else qty * (cost of ing evaluated from a fresh cache)
DirectIngredientSum(ings, i, c, b, M) ==
    IF i > Len(ings) THEN Zero
    ELSE RAdd(RMul(<<ings[i][2], 1>>,
                   IF ings[i][1] \in DOMAIN M
                   THEN M[ings[i][1]]
                   ELSE calculate_production_cost_with_market(ings[i][1], c, b, M)),
              DirectIngredientSum(ings, i + 1, c, b, M))

\* (pp / (1 + b)) * c written out
BaseCost(pp, c, b) == RMul(RDiv(<<pp, 1>>, RAdd(<<1, 1>>, b)), c)

\* C1: a call with a fresh cache returns (pp(r)/(1+b))*c plus, over the
\* direct ingredients, qty*M[ing] for a priced ingredient and qty times the
\* evaluated cost of the ingredient otherwise; with c = 0.1, b = 0 and no
\* prices, lead costs 0.1 and ammo 0.8.
C1_CostFormula ==
    call = "cost" =>
        /\ total_cost =
              RAdd(BaseCost(PRODUCTION_DATA[resource].pp, cost_per_pp, production_bonus),
                   DirectIngredientSum(PRODUCTION_DATA[resource].ingredients, 1,
                                       cost_per_pp, production_bonus, market_prices))
        /\ (cost_per_pp = <<1, 10>> /\ production_bonus = <<0, 1>>
              /\ market_prices = EmptyMap) =>
               /\ resource = "lead" => total_cost = <<1, 10>>
               /\ resource = "ammo" => total_cost = <<4, 5>>

C1_Witness ==
    /\ call = "cost"
    /\ resource = "ammo"
    /\ cost_per_pp = <<1, 10>>
    /\ production_bonus = <<0, 1>>
    /\ market_prices = EmptyMap
    /\ total_cost = <<4, 5>>

\* C2 as stated: whenever the solver returns a positive m, the cost of r
\* evaluated at cost-per-PP m with the same bonus and prices is M[r], raw
\* materials with the deposit bonus included.
C2_InverseIsMarketPrice ==
    call = "inverse" => total_cost = Price(market_prices, resource)

\* C2 amended: the round trip gives M[r] unless r is a raw material solved
\* with the deposit bonus, where it gives M[r]*(1+b+0.3)/(1+b) > M[r].
C2_InverseUpToDepositBonus ==
    call = "inverse" =>
        IF use_deposit_bonus /\ PRODUCTION_DATA[resource].ingredients = << >>
        THEN /\ total_cost =
                  RDiv(RMul(Price(market_prices, resource),
                            RAdd(RAdd(<<1, 1>>, production_bonus), <<3, 10>>)),
                       RAdd(<<1, 1>>, production_bonus))
             /\ RLt(Price(market_prices, resource), total_cost)
        ELSE total_cost = Price(market_prices, resource)

C2_Witness ==
    /\ call = "inverse"
    /\ resource = "ammo"
    /\ production_bonus = <<0, 1>>
    /\ market_prices = [k \in {"ammo", "lead"} |->
                           IF k = "ammo" THEN <<1, 1>> ELSE <<1, 10>>]
    /\ cost_per_pp = <<3, 20>>
    /\ total_cost = <<1, 1>>

SomePriceMissing ==
    \/ resource \notin Catalog
    \/ resource \notin DOMAIN market_prices
    \/ \E ing \in IngredientNames(resource) : ing \notin DOMAIN market_prices

\* C8: the solver returns None, never 0, when the resource is missing from
\* the prices or the catalog or when a direct ingredient has no price,
\* however low the resource's own price is.
C8_MissingPriceIsNone ==
    (call = "max" /\ SomePriceMissing) =>
        max_cost_per_pp = <<>> /\ max_cost_per_pp # <<0, 1>>

\* ammo priced below any ingredient cost, lead not priced
C8_Witness ==
    /\ call = "max"
    /\ resource = "ammo"
    /\ DOMAIN market_prices = {"ammo"}
    /\ market_prices["ammo"] = <<1, 10>>
    /\ max_cost_per_pp = <<>>

RECURSIVE MarketIngredientCost(_, _, _)
\* sum of qty * M[ing] over the direct ingredients from i on
MarketIngredientCost(ings, i, M) ==
    IF i > Len(ings) THEN Zero
    ELSE RAdd(RMul(<<ings[i][2], 1>>, M[ings[i][1]]),
              MarketIngredientCost(ings, i + 1, M))

\* C9: with the resource's own price P and every direct ingredient price
\* known, the solver returns exactly 0 when P <= sum qty*M[ing] and the
\* strictly positive (P - ingredientCost) / (pp/(1+effectiveBonus))
\* otherwise, the ingredient cost being market prices only.
C9_ZeroOrPositiveThreshold ==
    (call = "max" /\ ~SomePriceMissing) =>
        LET recipe == PRODUCTION_DATA[resource]
            P == market_prices[resource]
            IC == MarketIngredientCost(recipe.ingredients, 1, market_prices)
            effB == IF use_deposit_bonus /\ recipe.ingredients = << >>
                    THEN RAdd(production_bonus, <<3, 10>>)
                    ELSE production_bonus
        IN  IF RLe(P, IC)
            THEN max_cost_per_pp = <<0, 1>>
            ELSE /\ max_cost_per_pp =
                      RDiv(RSub(P, IC), RDiv(<<recipe.pp, 1>>, RAdd(<<1, 1>>, effB)))
                 /\ RLt(<<0, 1>>, max_cost_per_pp)

C9_Witness ==
    /\ call = "max"
    /\ resource = "ammo"
    /\ production_bonus = <<0, 1>>
    /\ market_prices = [k \in {"ammo", "lead"} |->
                           IF k = "ammo" THEN <<1, 1>> ELSE <<1, 10>>]
    /\ max_cost_per_pp = <<3, 20>>

\* C10: the cost is non-decreasing in cost_per_pp at a fixed bonus and
\* non-increasing in production_bonus at a fixed cost_per_pp.
C10_Monotone ==
    call = "cost" =>
        /\ \A c2 \in CostsPerPP :
               RLe(cost_per_pp, c2) =>
                   RLe(total_cost,
                       calculate_production_cost_with_market(
                           resource, c2, production_bonus, market_prices))
        /\ \A b2 \in Bonuses :
               RLe(production_bonus, b2) =>
                   RLe(calculate_production_cost_with_market(
                           resource, cost_per_pp, b2, market_prices),
                       total_cost)

\* a resource with an unpriced ingredient, with a dearer cost_per_pp and a
\* larger bonus to compare with
C10_Witness ==
    /\ call = "cost"
    /\ resource = "ammo"
    /\ market_prices = EmptyMap
    /\ \E c2 \in CostsPerPP :
           RLt(total_cost, calculate_production_cost_with_market(
                               resource, c2, production_bonus, market_prices))
    /\ \E b2 \in Bonuses :
           RLt(calculate_production_cost_with_market(
                   resource, cost_per_pp, b2, market_prices), total_cost)

\* C11: for a raw material (no ingredients) the cost is exactly
\* (pp/(1+b))*c under every price map, one that prices the raw material
\* itself included.
C11_RawMaterialCost ==
    (call = "cost" /\ resource \in RAW_MATERIALS) =>
        total_cost = RMul(RDiv(<<PRODUCTION_DATA[resource].pp, 1>>,
                               RAdd(<<1, 1>>, production_bonus)),
                          cost_per_pp)

\* livestock (pp 20) with its own market price known
C11_Witness ==
    /\ call = "cost"
    /\ resource = "livestock"
    /\ "livestock" \in DOMAIN market_prices
    /\ cost_per_pp = <<1, 10>>
    /\ production_bonus = <<1, 10>>
    /\ total_cost = <<20, 11>>

\* C12: the 0.3 deposit bonus enters only for a raw material solved with
\* use_deposit_bonus: a non-raw resource gets the same result with either
\* flag, and a priced raw material gets price*(1+b+0.3)/pp with the flag,
\* strictly more than without it.
C12_DepositBonusOnlyForRaw ==
    (call = "max" /\ resource \in Catalog) =>
        IF PRODUCTION_DATA[resource].ingredients # << >>
        THEN max_cost_per_pp =
                 calculate_max_pp_cost(resource, production_bonus, market_prices,
                                       ~use_deposit_bonus)
        ELSE (use_deposit_bonus /\ resource \in DOMAIN market_prices) =>
                 /\ max_cost_per_pp =
                        RDiv(RMul(market_prices[resource],
                                  RAdd(RAdd(<<1, 1>>, production_bonus), <<3, 10>>)),
                             <<PRODUCTION_DATA[resource].pp, 1>>)
                 /\ RLt(calculate_max_pp_cost(resource, production_bonus,
                                              market_prices, FALSE),
                        max_cost_per_pp)

\* lead at price 1 with no production bonus: 1.3 with the deposit bonus
C12_Witness ==
    /\ call = "max"
    /\ resource = "lead"
    /\ use_deposit_bonus
    /\ production_bonus = <<0, 1>>
    /\ market_prices = [k \in {"lead"} |-> <<1, 1>>]
    /\ max_cost_per_pp = <<13, 10>>

----------------------------------------------------------------------------
(* Properties of the employee report, checked under SpecReport.            *)

\* C3: no record is produced for a worker of a company whose itemCode is
\* not a key of the market prices or not a key of PRODUCTION_DATA, and the
\* workers of the other fetched companies all have their record.
C3_UnpricedOrUnknownSkipped ==
    report_call = "returned" =>
        /\ \A k \in 1..Len(employees_analysis) :
               /\ employees_analysis[k].resource \in DOMAIN PRODUCTION_DATA
               /\ employees_analysis[k].resource \in DOMAIN market_prices
        /\ \A i \in 1..Len(companies) :
               (/\ DOMAIN market_prices # {}
                /\ companies[i].fetched
                /\ companies[i].itemCode \in DOMAIN PRODUCTION_DATA
                /\ companies[i].itemCode \in DOMAIN market_prices) =>
                   \A j \in 1..Len(companies[i].workers) :
                       \E k \in 1..Len(employees_analysis) :
                           /\ employees_analysis[k].company = i
                           /\ employees_analysis[k].worker_id = j

\* C4: profit_percentage is the infinite sentinel exactly when
\* production_cost = 0 and profit_per_unit > 0, profit/cost*100 otherwise,
\* and no run ends in a division by zero.
C4_SentinelExactlyOnFreeProfit ==
    /\ report_call # "raised"
    /\ \A k \in 1..Len(employees_analysis) :
           LET row == employees_analysis[k]
           IN  /\ row.profit_percentage = <<1, 0>>
                     <=> (row.production_cost = <<0, 1>>
                            /\ RLt(<<0, 1>>, row.profit_per_unit))
               /\ row.profit_percentage # <<1, 0>> =>
                      /\ row.production_cost[1] # 0
                      /\ row.profit_percentage =
                             RMul(RDiv(row.profit_per_unit, row.production_cost),
                                  <<100, 1>>)

\* C14: the cache is not carried between workers: every row of the report
\* records the cost evaluated from an empty cache with that worker's own
\* wage, (pp/(1+b))*wage plus the ingredient terms, whatever companies and
\* workers were processed before it; the report of the same companies in
\* the opposite order records the same cost for each of them.
C14_FreshCachePerWorker ==
    report_call = "returned" =>
        /\ \A k \in 1..Len(employees_analysis) :
               LET row == employees_analysis[k]
               IN  row.production_cost =
                       RAdd(BaseCost(PRODUCTION_DATA[row.resource].pp, row.wage,
                                     production_bonus),
                            DirectIngredientSum(PRODUCTION_DATA[row.resource].ingredients,
                                                1, row.wage, production_bonus,
                                                market_prices))
        /\ LET n == Len(companies)
               reversed == analyze_employees_with_real_costs(
                               [i \in 1..n |-> companies[n + 1 - i]],
                               market_prices, production_bonus)
           IN  /\ Len(reversed) = Len(employees_analysis)
               /\ \A k \in 1..Len(employees_analysis) :
                      \E m \in 1..Len(reversed) :
                          /\ reversed[m].company = n + 1 - employees_analysis[k].company
                          /\ reversed[m].worker_id = employees_analysis[k].worker_id
                          /\ reversed[m].production_cost =
                                 employees_analysis[k].production_cost

\* two workers on the same unpriced-ingredient recipe with different wages
\* get different costs
C14_Witness ==
    /\ report_call = "returned"
    /\ Len(employees_analysis) = 2
    /\ employees_analysis[1].resource = employees_analysis[2].resource
    /\ employees_analysis[1].resource = "ammo"
    /\ "lead" \notin DOMAIN market_prices
    /\ employees_analysis[1].wage = <<1, 10>>
    /\ employees_analysis[2].wage = <<0, 1>>
    /\ employees_analysis[1].production_cost # <<0, 1>>
    /\ employees_analysis[2].production_cost = <<0, 1>>

\* C16: for a row whose resource and direct ingredients are all priced,
\* is_profitable holds exactly when the wage is strictly below
\* calculate_max_pp_cost(resource, bonus, M, False); when the solver returns
\* 0 the row is not flagged profitable, at wage 0 either.
C16_FlagAgreesWithThreshold ==
    report_call = "returned" =>
        \A k \in 1..Len(employees_analysis) :
            LET row == employees_analysis[k]
                threshold == calculate_max_pp_cost(row.resource, production_bonus,
                                                   market_prices, FALSE)
            IN  (/\ row.resource \in DOMAIN market_prices
                 /\ IngredientNames(row.resource) \subseteq DOMAIN market_prices) =>
                    /\ threshold # <<>>
                    /\ row.is_profitable <=> RLt(row.wage, threshold)
                    /\ threshold = <<0, 1>> => ~row.is_profitable

\* one worker paid exactly the threshold (not profitable) and one paid 0
\* on a recipe whose solver result is 0 (not profitable either)
C16_Witness ==
    /\ report_call = "returned"
    /\ market_prices = [k \in {"lead", "ammo"} |-> <<1, 10>>]
    /\ production_bonus = <<0, 1>>
    /\ Len(employees_analysis) = 2
    /\ employees_analysis[1].resource = "lead"
    /\ employees_analysis[1].wage = <<1, 10>>
    /\ ~employees_analysis[1].is_profitable
    /\ employees_analysis[2].resource = "ammo"
    /\ employees_analysis[2].wage = <<0, 1>>
    /\ ~employees_analysis[2].is_profitable
    /\ calculate_max_pp_cost("ammo", production_bonus, market_prices, FALSE) = <<0, 1>>

----------------------------------------------------------------------------
(* Properties of the paginated readers, checked under SpecFeed.            *)

\* C5: a failed page request never propagates out of the reader: it
\* returns what it has accumulated so far.
C5_FetchFailureNeverPropagates == status # "raised"

RECURSIVE FlattenPages(_, _)
\* the trades of the first n pages, in feed order
FlattenPages(pages, n) ==
    IF n = 0 THEN << >> ELSE FlattenPages(pages, n - 1) \o pages[n]

Min(a, b) == IF a < b THEN a ELSE b

\* the position of the first trade older than the cutoff, or one past the end
FirstOld(flat) ==
    IF \E i \in 1..Len(flat) : flat[i][1] = "old"
    THEN CHOOSE i \in 1..Len(flat) :
             /\ flat[i][1] = "old"
             /\ \A h \in 1..(i - 1) : flat[h][1] # "old"
    ELSE Len(flat) + 1

RECURSIVE QuantityBefore(_, _, _)
\* the summed quantity of the trades before position k whose kind is in kinds
QuantityBefore(flat, k, kinds) ==
    IF k <= 1 THEN 0
    ELSE QuantityBefore(flat, k - 1, kinds)
             + (IF flat[k - 1][1] \in kinds THEN flat[k - 1][2] ELSE 0)

\* the first of the first n pages that holds an old trade, or n
PageOfFirstOld(pages, n) ==
    IF \E i \in 1..n : \E h \in 1..Len(pages[i]) : pages[i][h][1] = "old"
    THEN CHOOSE i \in 1..n :
             /\ \E h \in 1..Len(pages[i]) : pages[i][h][1] = "old"
             /\ \A g \in 1..(i - 1) : \A h \in 1..Len(pages[g]) : pages[g][h][1] # "old"
    ELSE n

\* a feed that ends, with no empty page before its last page
WellPaged(f) ==
    /\ ~f.loop
    /\ \A i \in 1..(Len(f.pages) - 1) : f.pages[i] # << >>

\* every trade is dated, and no recent trade follows an older one
ReverseChronological(f) ==
    LET flat == FlattenPages(f.pages, Len(f.pages))
    IN  /\ WellPaged(f)
        /\ \A i \in 1..Len(flat) : flat[i][1] # "nots"
        /\ \A i \in 1..Len(flat) : i > FirstOld(flat) => flat[i][1] = "old"

\* C6 as stated: over a reverse-chronological feed that holds a trade older
\* than the cutoff, the volume returned is the summed quantity of exactly
\* the trades before the first such trade, across page boundaries, and no
\* page is requested after the one that holds it.
C6_VolumeBeforeFirstOldTrade ==
    (/\ fetcher = "fetch_24h_volume"
     /\ status = "returned"
     /\ ReverseChronological(feed)
     /\ FirstOld(FlattenPages(feed.pages, Len(feed.pages)))
            <= Len(FlattenPages(feed.pages, Len(feed.pages)))) =>
        LET flat == FlattenPages(feed.pages, Len(feed.pages))
        IN  /\ volume = QuantityBefore(flat, FirstOld(flat), {"fresh", "old", "nots"})
            /\ requests <= PageOfFirstOld(feed.pages, Len(feed.pages))

\* C6 amended: the same over the first 20 pages only; trades without
\* createdAt add nothing; without an old trade in those pages the volume is
\* the sum over all of them.
C6_VolumeWithinPageLimit ==
    (/\ fetcher = "fetch_24h_volume"
     /\ status = "returned"
     /\ WellPaged(feed)) =>
        LET n == Min(Len(feed.pages), 20)
            flat == FlattenPages(feed.pages, n)
        IN  /\ volume = QuantityBefore(flat, FirstOld(flat), {"fresh"})
            /\ requests <= PageOfFirstOld(feed.pages, n)

\* trades aged 1h, 23h, 25h with quantities 5, 5, 5, one per page
C6_Witness ==
    /\ fetcher = "fetch_24h_volume"
    /\ status = "returned"
    /\ feed = [pages |-> << << <<"fresh", 5>> >>, << <<"fresh", 5>> >>,
                            << <<"old", 5>> >> >>,
               loop |-> FALSE]
    /\ volume = 10
    /\ requests = 3

\* the page the k-th request of a run reads
ChainPage(f, k) ==
    IF f.loop THEN f.pages[((k - 1) % Len(f.pages)) + 1] ELSE f.pages[k]

\* whether the k-th page read came with a nextCursor
ChainHasNext(f, k) == f.loop \/ k < Len(f.pages)

\* C7: on every feed, a never-ending one included, fetch_24h_volume issues
\* at most 20 page requests and fetch_trades at most max_pages; a loop
\* still running has read only non-empty pages that came with a nextCursor,
\* is below its page limit and can take its next step.
C7_PaginationBounded ==
    /\ fetcher = "fetch_24h_volume" => requests <= 20
    /\ fetcher = "fetch_trades" => requests <= max_pages
    /\ status = "running" =>
           /\ requests < (IF fetcher = "fetch_24h_volume" THEN 20 ELSE max_pages)
           /\ \A k \in 1..requests :
                  /\ feed.loop \/ k <= Len(feed.pages)
                  /\ ChainPage(feed, k) # << >>
                  /\ ChainHasNext(feed, k)
           /\ ENABLED NextFeed

\* a feed that never ends, cut off by the page limit
C7_Witness ==
    /\ fetcher = "fetch_24h_volume"
    /\ feed.loop
    /\ status = "returned"
    /\ requests = 20
    /\ volume = 100

----------------------------------------------------------------------------
(* Properties of the bid/ask spread, checked under SpecSpread.             *)

\* C13: in both places the spread is lowest_ask - highest_bid when the buy
\* side and the sell side of the snapshot are both non-empty, and absent
\* (None, no number and no exception) when either side is empty.
C13_SpreadOrAbsent ==
    spread_call # "none" =>
        /\ spread_status \notin {"KeyError", "ValueError"}
        /\ IF buy_orders # << >> /\ sell_orders # << >>
           THEN spread = RSub(MinPrice(sell_orders), MaxPrice(buy_orders))
           ELSE spread = <<>>

\* calculate_bid_ask_spread alone does what C13 says
CalculateBidAskSpreadAgrees ==
    spread_call = "arbitrage" =>
        /\ spread_status = "returned"
        /\ IF buy_orders # << >> /\ sell_orders # << >>
           THEN spread = RSub(MinPrice(sell_orders), MaxPrice(buy_orders))
           ELSE spread = <<>>

\* the Market Depth tab with both sides above the floor shows the spread
MarketDepthShown ==
    /\ spread_call = "market_depth"
    /\ spread_status = "shown"
    /\ spread = <<2, 5>>

----------------------------------------------------------------------------
(* Properties of the evaluation's recursion, checked under SpecEval.       *)

\* C15: an evaluation always ends: it returns, or on a catalog with a
\* cycle it fails with CyclicRecipe; no resource is entered again while an
\* activation of it is still open and the interpreter's stack is never
\* exhausted.
C15_TerminatesOrCyclicRecipe ==
    /\ eval_status \in {"idle", "running", "returned", "CyclicRecipe"}
    /\ \A m, n \in 1..Len(stack) : m # n => stack[m].resource # stack[n].resource

\* on the shipped catalog the recursion is at most two activations deep and
\* the value returned is the one the recursive definition gives
ShippedCatalogDepth ==
    catalog = PRODUCTION_DATA =>
        /\ Len(stack) <= 2
        /\ eval_status # "RecursionError"
        /\ eval_status = "returned" =>
               eval_result = calculate_production_cost_with_market(
                                 resource, cost_per_pp, production_bonus, market_prices)

\* on a catalog with a cycle whose ingredients are all priced the
\* evaluation returns as well
CyclicCatalogPricedReturns ==
    /\ catalog = CyclicCatalog
    /\ resource \in {"lead", "ammo"}
    /\ eval_status = "returned"

====
